---- MODULE Spec2Model ----
(***************************************************************************)
(* Model of the real-time session manager of WebinaBiz:                    *)
(*   - MeetingRoom (src/components/MeetingRoom.tsx): the React component   *)
(*     that owns the camera / virtual / screen streams, picks the active   *)
(*     one, talks to PeerJS and replaces outbound tracks;                  *)
(*   - BackgroundService (src/unnamed/part_004): the compositor frame loop.*)
(*                                                                         *)
(* React semantics used throughout: a handler's setState calls are         *)
(* followed by a render and by the effects whose dependencies changed, in  *)
(* declaration order; an effect reads React state from its render's        *)
(* closure and refs from the live object; the state an effect sets is seen *)
(* by the next render.  Flush runs these passes to the fixpoint, so one    *)
(* action is one handler (or one resumed continuation) plus every effect   *)
(* it causes.  Everything after an await is an action of its own.          *)
(***************************************************************************)
EXTENDS Integers, Sequences, FiniteSets, TLC

\* ------------------------------------------------------------------ bounds
MaxStreams == 3     \* stream objects created in one session
MaxCalls   == 2     \* inbound call objects in one session
MaxPrompts == 2     \* screen-capture prompts awaiting the user's answer
MaxRecorders == 2   \* recordings requested in one session

\* ------------------------------------------------------- values of the model
Peers == {"ab12cd", "xy9"}     \* remote peer ids (PeerJS ids are short strings)
HostId == "ab12cd"             \* the id typed into the lobby when joining
IdentifyNames == {"Ann"}        \* names remote peers announce on the data channel
MetaNames == {"", "Cy"}        \* name in an inbound call's metadata ("": none)
Modes == {"NONE", "BLUR", "IMAGE"}
\* Names of the rejections of getDisplayMedia: the user's denial, and a failure
\* of the capture.
Rejections == {"NotAllowedError", "NotFoundError"}

NoTrack == [src |-> 0, kind |-> "none"]
VideoTrack(n) == [src |-> n, kind |-> "video"]
AudioTrack(n) == [src |-> n, kind |-> "audio"]

\* A MediaStream object: its identity (id) and its tracks. Null is `null`.
Null == [id |-> 0, kind |-> "None", v |-> NoTrack, a |-> NoTrack]
CameraStream(n) == [id |-> n, kind |-> "Camera", v |-> VideoTrack(n), a |-> AudioTrack(n)]

VARIABLES
    \* React state of MeetingRoom
    webcamStream, processedStream, screenStream, activeStream,
    isVideoEnabled, isAudioEnabled, backgroundMode, myPeerId, participants,
    \* refs and other mutable objects
    activeStreamRef, hasJoinedRef, activeCallsRef, peerNamesRef,
    vidSrcObject,      \* videoProcessRef.current.srcObject
    bg,                \* the backgroundService singleton
    \* props
    targetMeetingId,
    \* the environment: pending asynchronous work and the browser's objects
    initStreamState,   \* "none" | "pending" | "done" | "denied": initStream's getUserMedia
    pendingPlay,       \* updateProcessing suspended at `await vid.play()`
    sharePrompts,      \* toggleScreenShare calls suspended at getDisplayMedia
    shareTracks,       \* the tracks of the screen captures granted so far
    deadTracks,        \* tracks that were stopped or have ended
    trackEnabled,      \* the camera tracks' enabled flags: [video, audio]
    windowSegmentation,\* window.SelfieSegmentation is loaded
    canvasDrawn,       \* onResults has drawn at least one composited frame
    canvasFill,        \* what the last onResults call drew behind the person
    unavailable,       \* peer ids the signalling server has reported unavailable
    dataConns,         \* peers with a data connection set up by setupDataConnection
    untrackedCalls,    \* calls placed or answered that never entered activeCallsRef
    nextId, nextCall,  \* allocation of stream and call identities
    \* App and Lobby
    appState,          \* "LOBBY" | "MEETING" | "ENDED" (onEndCall was called)
    lobby,             \* the Lobby's state: stream, toggles, mode, its getUserMedia
    getUserMediaCalls, \* device acquisitions requested so far
    \* recording
    isRecording, mediaRecorderRef, recordedChunksRef,
    recorders,         \* the MediaRecorder objects created so far, with their captures
    recordPrompts,     \* toggleRecording calls suspended at getDisplayMedia
    artifacts,         \* the downloads made by onstop: each the chunk list it used
    \* observation of the last step
    joinCount,         \* connectToHost invocations so far
    stepChanges,       \* identity changes of the active source in the last step
    stepPasses,        \* runs of the track-replacement effect in the last step
    stepOutcome        \* what else the last step's handler did: "none", "ignored"
                       \* (a rejection swallowed silently), "alert", "initialized",
                       \* "drawn", "send-failed", "renamed", "cached",
                       \* "prompt-notice" (the alert that announces a prompt),
                       \* "participant-removed"

vars == << webcamStream, processedStream, screenStream, activeStream,
           isVideoEnabled, isAudioEnabled, backgroundMode, myPeerId, participants,
           activeStreamRef, hasJoinedRef, activeCallsRef, peerNamesRef,
           vidSrcObject, bg, targetMeetingId, initStreamState, pendingPlay,
           sharePrompts, shareTracks, deadTracks, trackEnabled,
           windowSegmentation, canvasDrawn, canvasFill, unavailable, dataConns,
           untrackedCalls, nextId, nextCall, appState, lobby, getUserMediaCalls, isRecording,
           mediaRecorderRef, recordedChunksRef, recorders, recordPrompts,
           artifacts, joinCount, stepChanges, stepPasses, stepOutcome >>

appVars == << appState, lobby, getUserMediaCalls >>
recVars == << isRecording, mediaRecorderRef, recordedChunksRef, recorders,
              recordPrompts, artifacts >>

\* ------------------------------------------------- BackgroundService (part_004)
\* The service object. nTimer, nSend, nRaf count what its loops have scheduled:
\* pending 500 ms retry timers, segmentation sends awaited by processFrame, and
\* pending requestAnimationFrame callbacks. backgroundImage is the load state of
\* the Image object the constructor creates (lines 13-14): the field itself is
\* never null. nInit counts the backend instances assigned at line 37.
BgInit == [active |-> FALSE, mode |-> "BLUR", selfieSegmentation |-> FALSE,
           isInitializing |-> FALSE, onResultsSet |-> FALSE,
           backgroundImage |-> "loading", nInit |-> 0,
           nTimer |-> 0, nSend |-> 0, nRaf |-> 0]

InitOutcomes == {"ok", "throwNew", "throwSetup"}

LoopCount(b) == b.nTimer + b.nSend + b.nRaf

SetMode(b, m) == [b EXCEPT !.mode = m]

Stop(b) == [b EXCEPT !.active = FALSE]

\* ensureInitialized: the service after the call, and the boolean it resolves to.
\* init is what the SelfieSegmentation constructor and setup calls do when reached.
EnsureInitialized(b, win, init) ==
    IF b.selfieSegmentation THEN [bg |-> b, ready |-> TRUE]
    ELSE IF b.isInitializing THEN [bg |-> b, ready |-> FALSE]
    ELSE IF ~win THEN [bg |-> b, ready |-> FALSE]
    ELSE IF init = "ok"
         THEN [bg |-> [b EXCEPT !.isInitializing = TRUE, !.selfieSegmentation = TRUE,
                                !.onResultsSet = TRUE, !.nInit = @ + 1],
               ready |-> TRUE]
    ELSE IF init = "throwSetup"
         THEN [bg |-> [b EXCEPT !.selfieSegmentation = TRUE, !.nInit = @ + 1],
               ready |-> FALSE]
    ELSE [bg |-> b, ready |-> FALSE]

\* One run of processFrame up to its first suspension: the loop ends, awaits a
\* send, or (no frame to send) requests the next animation frame.
ProcessFrame(b, vready) ==
    IF ~b.active THEN b
    ELSE IF vready /\ b.selfieSegmentation THEN [b EXCEPT !.nSend = @ + 1]
    ELSE [b EXCEPT !.nRaf = @ + 1]

\* Mutant: processFrame does not request the next frame after a send.
AfterSendStops(b) == [b EXCEPT !.nSend = @ - 1]

\* processFrame resumed after `await send`: the next frame is requested if active.
AfterSend(b) ==
    IF b.active THEN [b EXCEPT !.nSend = @ - 1, !.nRaf = @ + 1]
    ELSE [b EXCEPT !.nSend = @ - 1]

\* Mutant: a call that finds the backend not ready gives up.
RetryNever(b) == b

\* The retry of lines 125-131.
RetryLater(b) ==
    IF b.active THEN [b EXCEPT !.nTimer = @ + 1] ELSE b

\* processStream, with the continuation of `await ensureInitialized()`, which is a
\* microtask that runs before any other callback.
ProcessStream(b, win, init, vready) ==
    LET e == EnsureInitialized([b EXCEPT !.active = TRUE], win, init)
    IN  IF ~e.ready THEN RetryLater(e.bg) ELSE ProcessFrame(e.bg, vready)

\* ------------------------------------------------------ MeetingRoom: effects
UserName == "Me"

NoPlay == [pending |-> FALSE, mode |-> "NONE", webcam |-> Null]

\* A PeerJS MediaConnection: sv and sa are the tracks of its video and audio
\* senders (NoTrack: the connection has no sender of that kind).
NewCall(cid, peer, dir, metaName, stream) ==
    [cid |-> cid, peer |-> peer, dir |-> dir, metaName |-> metaName,
     sv |-> stream.v, sa |-> stream.a]

TrackedPeers(calls) == { calls[i].peer : i \in 1..Len(calls) }

\* The component's state as one record: React state (seen by an effect through its
\* render's closure) and the mutable objects the effects touch.
Cur == [webcam |-> webcamStream, processed |-> processedStream,
        screen |-> screenStream, active |-> activeStream,
        mode |-> backgroundMode, videoOn |-> isVideoEnabled,
        myPeerId |-> myPeerId, target |-> targetMeetingId,
        activeRef |-> activeStreamRef, hasJoined |-> hasJoinedRef,
        calls |-> activeCallsRef, untracked |-> untrackedCalls,
        vidSrc |-> vidSrcObject, bg |-> bg, play |-> pendingPlay,
        dataConns |-> dataConns, nextId |-> nextId, nextCall |-> nextCall,
        joinCount |-> joinCount, changes |-> 0, passes |-> 0,
        outcome |-> "none"]

\* canvas.captureStream(30) plus the microphone track (lines 112-116): a new
\* stream object on every call.
CanvasStream(n, webcam) ==
    [id |-> n, kind |-> "Virtual", v |-> VideoTrack(n), a |-> webcam.a]

\* updateProcessing from line 108 on (reached directly, or after `await vid.play()`),
\* with the mode and camera stream of the closure it runs in.
StartProcessing(s, mode, webcam, win, init, vready) ==
    [s EXCEPT !.bg = ProcessStream(SetMode(@, mode), win, init, vready),
              !.processed = CanvasStream(s.nextId, webcam),
              !.nextId = @ + 1]

\* Effect 2, Background Processing Loop (lines 88-122). r is the render.
Effect2(r, s, win, init, vready) ==
    IF r.webcam = Null \/ ~r.videoOn
    THEN [s EXCEPT !.bg = Stop(@), !.processed = Null]
    ELSE IF r.mode = "NONE"
    THEN [s EXCEPT !.bg = Stop(@), !.processed = Null]
    ELSE IF s.vidSrc # r.webcam
    THEN [s EXCEPT !.vidSrc = r.webcam,
                   !.play = [pending |-> TRUE, mode |-> r.mode, webcam |-> r.webcam]]
    ELSE StartProcessing(s, r.mode, r.webcam, win, init, vready)

\* Mutant: the composited stream is tested before the screen stream.
NextStreamVirtualFirst(screen, processed, webcam, mode) ==
    IF mode # "NONE" /\ processed # Null THEN processed
    ELSE IF screen # Null THEN screen
    ELSE webcam

\* The priority policy of effect 3 (lines 126-134).
NextStream(screen, processed, webcam, mode) ==
    IF screen # Null THEN screen
    ELSE IF mode # "NONE" /\ processed # Null THEN processed
    ELSE webcam

\* Effect 3, Determine Active Stream (lines 125-141).
Effect3(r, s) ==
    LET next == NextStream(r.screen, r.processed, r.webcam, r.mode)
    IN  IF next # s.activeRef
        THEN [s EXCEPT !.active = next, !.activeRef = next, !.changes = @ + 1]
        ELSE s

\* Mutant: handleCallStream without its duplicate check.
HandleCallStreamNoDedup(s, call) == [s EXCEPT !.calls = Append(@, call)]

\* handleCallStream's first two lines (264-267): track the call unless its peer
\* already has a tracked call.
HandleCallStream(s, call) ==
    IF call.peer \in TrackedPeers(s.calls)
    THEN [s EXCEPT !.untracked = @ \cup {call}]
    ELSE [s EXCEPT !.calls = Append(@, call)]

\* connectToHost (lines 250-262); peerRef.current is set by effect 4 at mount.
ConnectToHost(s, hostId, stream) ==
    HandleCallStream(
        [s EXCEPT !.dataConns = @ \cup {hostId}, !.nextCall = @ + 1,
                  !.joinCount = @ + 1],
        NewCall(s.nextCall, hostId, "out", UserName, stream))

\* Mutant: the join effect does not record that it has joined.
Effect5NoLatch(r, s) ==
    IF r.target # "" /\ r.myPeerId # "" /\ s.activeRef # Null /\ ~s.hasJoined
    THEN ConnectToHost(s, r.target, s.activeRef)
    ELSE s

\* Effect 5, Join Meeting Logic (lines 193-200).
Effect5(r, s) ==
    IF r.target # "" /\ r.myPeerId # "" /\ s.activeRef # Null /\ ~s.hasJoined
    THEN [ConnectToHost(s, r.target, s.activeRef) EXCEPT !.hasJoined = TRUE]
    ELSE s

\* replaceTrack on the sender that currently carries a track of that kind.
ReplaceTracks(call, stream) ==
    [call EXCEPT !.sv = IF stream.v # NoTrack /\ @ # NoTrack THEN stream.v ELSE @,
                 !.sa = IF stream.a # NoTrack /\ @ # NoTrack THEN stream.a ELSE @]

\* Effect 6, Track Replacement (lines 203-228).
Effect6(r, s) ==
    IF r.active = Null THEN [s EXCEPT !.passes = @ + 1]
    ELSE [s EXCEPT !.passes = @ + 1,
                   !.calls = [i \in 1..Len(@) |-> ReplaceTracks(@[i], r.active)]]

\* Mutant: the background effect also depends on the screen stream.
Deps2WithScreen(r) == << r.mode, r.webcam, r.videoOn, r.screen >>

Deps2(r) == << r.mode, r.webcam, r.videoOn >>
Deps3(r) == << r.screen, r.processed, r.webcam, r.mode >>
Deps5(r) == << r.target, r.myPeerId, r.active >>
\* Mutant: the track-replacement effect also depends on the composited stream.
Deps6WithProcessed(r) == << r.active, r.processed >>

Deps6(r) == << r.active >>

\* F applied to the value of x (x is evaluated once, whatever F does with it).
Let(x, F(_)) == CHOOSE y \in { F(v) : v \in {x} } : TRUE

\* One render and its effects: p is the previous render, r the state now.
Pass(p, r, win, init, vready) ==
    Let(IF Deps2(p) # Deps2(r) THEN Effect2(r, r, win, init, vready) ELSE r,
        LAMBDA s2 :
    Let(IF Deps3(p) # Deps3(r) THEN Effect3(r, s2) ELSE s2,
        LAMBDA s3 :
    Let(IF Deps5(p) # Deps5(r) THEN Effect5(r, s3) ELSE s3,
        LAMBDA s5 :
        IF Deps6(p) # Deps6(r) THEN Effect6(r, s5) ELSE s5)))

\* Renders until no effect sets state any more (three passes reach the fixpoint:
\* effect 2 feeds effect 3, effect 3 feeds effects 5 and 6).
Flush(p0, r0, win, init, vready) ==
    Let(p0, LAMBDA p :
    Let(r0, LAMBDA r :
    Let(Pass(p, r, win, init, vready), LAMBDA a :
    Let(Pass(r, a, win, init, vready), LAMBDA b :
    Let(Pass(a, b, win, init, vready), LAMBDA c :
        Pass(b, c, win, init, vready))))))

\* The state after a handler: s is the state its setState calls leave.
Commit(s) ==
    /\ s.nextId <= MaxStreams + 1
    /\ webcamStream' = s.webcam
    /\ processedStream' = s.processed
    /\ screenStream' = s.screen
    /\ activeStream' = s.active
    /\ backgroundMode' = s.mode
    /\ isVideoEnabled' = s.videoOn
    /\ myPeerId' = s.myPeerId
    /\ activeStreamRef' = s.activeRef
    /\ hasJoinedRef' = s.hasJoined
    /\ activeCallsRef' = s.calls
    /\ untrackedCalls' = s.untracked
    /\ vidSrcObject' = s.vidSrc
    /\ bg' = s.bg
    /\ pendingPlay' = s.play
    /\ dataConns' = s.dataConns
    /\ nextId' = s.nextId
    /\ nextCall' = s.nextCall
    /\ joinCount' = s.joinCount
    /\ stepChanges' = s.changes
    /\ stepPasses' = s.passes
    /\ stepOutcome' = s.outcome
    /\ UNCHANGED << targetMeetingId, appVars, recVars, unavailable >>

\* What the SelfieSegmentation constructor and setup may do if ensureInitialized
\* reaches them in this step (it does not when the instance exists, when an
\* initialization is marked as running, or when the script is not loaded).
InitChoices ==
    IF bg.selfieSegmentation \/ bg.isInitializing \/ ~windowSegmentation
    THEN {"ok"} ELSE InitOutcomes

\* A handler that sets React state to s and lets React render; none of the
\* effects it triggers can reach processStream.
Render(s) ==
    \E f \in {Flush(Cur, s, windowSegmentation, "ok", FALSE)} : Commit(f)

\* The same for a handler whose effects may reach processStream: init is what the
\* backend's construction does, vready whether the hidden video element has a
\* frame (readyState >= 2 and videoWidth > 0).
RenderService(s) ==
    \E init \in InitChoices, vready \in BOOLEAN :
        \E f \in {Flush(Cur, s, windowSegmentation, init, vready)} : Commit(f)

\* What the handlers of the stream side leave alone.
PeerSideUnchanged == UNCHANGED << participants, peerNamesRef >>

\* ------------------------------------------------------------------- Init
\* The first render's effects, all of which run at mount, then the renders they
\* cause. Effect 2 cannot reach processStream at mount (the hidden video element
\* has no source yet), so the compositor's inputs are not read.
Mount(r0) ==
    Let(r0, LAMBDA r :
    Let(Effect2(r, r, FALSE, "ok", FALSE), LAMBDA s2 :
    Let(Effect3(r, s2), LAMBDA s3 :
    Let(Effect5(r, s3), LAMBDA s5 :
    Let(Effect6(r, s5), LAMBDA s6 :
        Flush(r, s6, FALSE, "ok", FALSE))))))

\* The props App passes from the lobby: the camera stream the lobby acquired (or
\* null), the lobby's toggles, the lobby's background mode and the meeting id.
Props(initialStream, initialVideo, initialBackgroundMode, meetingId) ==
    [webcam |-> initialStream, processed |-> Null, screen |-> Null,
     active |-> initialStream, mode |-> initialBackgroundMode,
     videoOn |-> initialVideo, myPeerId |-> "", target |-> meetingId,
     activeRef |-> initialStream, hasJoined |-> FALSE, calls |-> << >>,
     untracked |-> {}, vidSrc |-> Null, bg |-> BgInit, play |-> NoPlay,
     dataConns |-> {}, nextId |-> IF initialStream = Null THEN 1 ELSE 2,
     nextCall |-> 1, joinCount |-> 0, changes |-> 0, passes |-> 0,
     outcome |-> "none"]

\* The Lobby's state at its mount (Lobby.tsx lines 10-15) and the camera effect's
\* localStream (line 22); camera is the state of startCamera's getUserMedia:
\* "pending", "acquired" (resolved, setStream called, the render that shows the
\* stream to the handlers not yet committed), "granted" or "denied".
LobbyMounted ==
    [stream |-> Null, videoEnabled |-> TRUE, audioEnabled |-> TRUE,
     backgroundMode |-> "NONE", camera |-> "pending", localStream |-> Null]

\* The Lobby after App has replaced it by the MeetingRoom: its state is gone, its
\* getUserMedia request is not.
LobbyUnmounted(camera) == [LobbyMounted EXCEPT !.camera = camera]

\* The session as handleJoin starts it, for every join the Lobby can make.
Init ==
    \E initialStream \in {Null, CameraStream(1)}, initialVideo \in BOOLEAN,
       initialAudio \in BOOLEAN, initialBackgroundMode \in Modes,
       meetingId \in {"", HostId} :
        \E s \in {Mount(Props(initialStream, initialVideo, initialBackgroundMode,
                             meetingId))} :
            /\ webcamStream = s.webcam
            /\ processedStream = s.processed
            /\ screenStream = s.screen
            /\ activeStream = s.active
            /\ backgroundMode = s.mode
            /\ isVideoEnabled = s.videoOn
            /\ isAudioEnabled = initialAudio
            /\ myPeerId = s.myPeerId
            /\ participants = << >>
            /\ activeStreamRef = s.activeRef
            /\ hasJoinedRef = s.hasJoined
            /\ activeCallsRef = s.calls
            /\ peerNamesRef = [p \in Peers |-> ""]
            /\ vidSrcObject = s.vidSrc
            /\ bg = s.bg
            /\ targetMeetingId = meetingId
            /\ initStreamState = IF initialStream = Null THEN "pending" ELSE "none"
            /\ pendingPlay = s.play
            /\ sharePrompts = << >>
            /\ shareTracks = {}
            /\ deadTracks = {}
            /\ trackEnabled = IF initialStream = Null
                              THEN [video |-> TRUE, audio |-> TRUE]
                              ELSE [video |-> initialVideo, audio |-> initialAudio]
            /\ windowSegmentation = FALSE
            /\ canvasDrawn = FALSE
            /\ canvasFill = "none"
            /\ unavailable = {}
            /\ stepOutcome = "none"
            /\ dataConns = s.dataConns
            /\ untrackedCalls = s.untracked
            /\ nextId = s.nextId
            /\ nextCall = s.nextCall
            /\ joinCount = s.joinCount
            /\ stepChanges = 0
            /\ stepPasses = 0
            /\ appState = "MEETING"
            /\ lobby = LobbyUnmounted(IF initialStream = Null THEN "denied"
                                                              ELSE "granted")
            /\ getUserMediaCalls = IF initialStream = Null THEN 2 ELSE 1
            /\ isRecording = FALSE
            /\ mediaRecorderRef = 0
            /\ recordedChunksRef = << >>
            /\ recorders = << >>
            /\ recordPrompts = 0
            /\ artifacts = << >>

\* ------------------------------------------------- MeetingRoom: stream side
EnvUnchanged == UNCHANGED << initStreamState, sharePrompts, shareTracks,
                             deadTracks, windowSegmentation, canvasDrawn, canvasFill >>

\* initStream resumed after getUserMedia resolves (lines 73-78).
InitStreamResolved ==
    /\ initStreamState = "pending"
    /\ initStreamState' = "done"
    /\ LET stream == CameraStream(nextId)
           first == activeStreamRef = Null
       IN  Render([Cur EXCEPT !.webcam = stream, !.nextId = @ + 1,
                              !.active = IF first THEN stream ELSE @,
                              !.activeRef = IF first THEN stream ELSE @,
                              !.changes = IF first THEN 1 ELSE 0])
    /\ trackEnabled' = [video |-> TRUE, audio |-> TRUE]
    /\ PeerSideUnchanged
    /\ UNCHANGED << isAudioEnabled, sharePrompts, shareTracks, deadTracks,
                    windowSegmentation, canvasDrawn, canvasFill >>

\* initStream's getUserMedia rejects (lines 79-81).
InitStreamDenied ==
    /\ initStreamState = "pending"
    /\ initStreamState' = "denied"
    /\ Render(Cur)
    /\ PeerSideUnchanged
    /\ UNCHANGED << isAudioEnabled, trackEnabled, sharePrompts, shareTracks,
                    deadTracks, windowSegmentation, canvasDrawn, canvasFill >>

\* Mutant: turning the video off stops the camera's video track.
ToggleVideoStopsTrack ==
    /\ IF webcamStream # Null
       THEN /\ trackEnabled' = [trackEnabled EXCEPT !.video = ~isVideoEnabled]
            /\ deadTracks' = IF isVideoEnabled THEN deadTracks \cup {webcamStream.v}
                             ELSE deadTracks
            /\ RenderService([Cur EXCEPT !.videoOn = ~isVideoEnabled])
       ELSE /\ UNCHANGED << trackEnabled, deadTracks >>
            /\ Render(Cur)
    /\ PeerSideUnchanged
    /\ UNCHANGED << isAudioEnabled, initStreamState, sharePrompts, shareTracks,
                    windowSegmentation, canvasDrawn, canvasFill >>

\* toggleVideo (lines 310-316).
ToggleVideo ==
    /\ IF webcamStream # Null
       THEN /\ trackEnabled' = [trackEnabled EXCEPT !.video = ~isVideoEnabled]
            /\ RenderService([Cur EXCEPT !.videoOn = ~isVideoEnabled])
       ELSE /\ UNCHANGED trackEnabled
            /\ Render(Cur)
    /\ PeerSideUnchanged /\ EnvUnchanged
    /\ UNCHANGED isAudioEnabled

\* toggleAudio (lines 318-324).
ToggleAudio ==
    /\ IF webcamStream # Null
       THEN /\ trackEnabled' = [trackEnabled EXCEPT !.audio = ~isAudioEnabled]
            /\ isAudioEnabled' = ~isAudioEnabled
       ELSE UNCHANGED << trackEnabled, isAudioEnabled >>
    /\ Render(Cur)
    /\ PeerSideUnchanged /\ EnvUnchanged

\* Mutant: the cycle runs backwards.
NextModeBackwards(m) ==
    IF m = "NONE" THEN "IMAGE" ELSE IF m = "IMAGE" THEN "BLUR" ELSE "NONE"

\* The mode cycleBackground sets (lines 327-329).
NextMode(m) ==
    IF m = "NONE" THEN "BLUR" ELSE IF m = "BLUR" THEN "IMAGE" ELSE "NONE"

\* cycleBackground (lines 326-330).
CycleBackground ==
    /\ RenderService([Cur EXCEPT !.mode = NextMode(backgroundMode)])
    /\ PeerSideUnchanged /\ EnvUnchanged
    /\ UNCHANGED << isAudioEnabled, trackEnabled >>

\* updateProcessing resumed after `await vid.play()` (lines 105-117), with the
\* mode and camera stream its closure captured.
PlayResolved ==
    /\ pendingPlay.pending
    /\ \E init \in InitChoices, vready \in BOOLEAN :
         \E f \in {Flush(Cur,
                         StartProcessing([Cur EXCEPT !.play = NoPlay],
                                         pendingPlay.mode, pendingPlay.webcam,
                                         windowSegmentation, init, vready),
                         windowSegmentation, init, vready)} : Commit(f)
    /\ PeerSideUnchanged /\ EnvUnchanged
    /\ UNCHANGED << isAudioEnabled, trackEnabled >>

StreamTracks(stream) == {stream.v, stream.a} \ {NoTrack}

\* The stream toggleScreenShare builds (lines 342-348): the capture's video track
\* and the microphone track of the camera stream its closure captured.
MixedStream(n, webcam) ==
    [id |-> n, kind |-> "Screen", v |-> VideoTrack(n), a |-> webcam.a]

\* toggleScreenShare up to its await (lines 332-339): stop the share, or ask the
\* browser for a capture.
ToggleScreenShare ==
    /\ IF screenStream # Null
       THEN /\ deadTracks' = deadTracks \cup StreamTracks(screenStream)
            /\ Render([Cur EXCEPT !.screen = Null])
            /\ UNCHANGED sharePrompts
       ELSE /\ Len(sharePrompts) < MaxPrompts
            /\ sharePrompts' = Append(sharePrompts, webcamStream)
            /\ Render(Cur)
            /\ UNCHANGED deadTracks
    /\ PeerSideUnchanged
    /\ UNCHANGED << isAudioEnabled, trackEnabled, initStreamState, shareTracks,
                    windowSegmentation, canvasDrawn, canvasFill >>

\* The share button pressed while no capture prompt is open.
ToggleScreenShareIdle == sharePrompts = << >> /\ ToggleScreenShare

RemoveAt(seq, i) == SubSeq(seq, 1, i - 1) \o SubSeq(seq, i + 1, Len(seq))

\* The tracks of the stream getDisplayMedia resolves to (line 339): a video
\* track, and an audio track if the user shares the capture's audio.
DisplayTracks(n, hasAudio) ==
    {VideoTrack(n)} \cup (IF hasAudio THEN {AudioTrack(n)} ELSE {})

\* toggleScreenShare resumed with a capture (lines 342-354).
ScreenShareGranted ==
    \E i \in 1..Len(sharePrompts), hasAudio \in BOOLEAN :
        /\ sharePrompts' = RemoveAt(sharePrompts, i)
        /\ shareTracks' = shareTracks \cup DisplayTracks(nextId, hasAudio)
        /\ Render([Cur EXCEPT !.screen = MixedStream(nextId, sharePrompts[i]),
                              !.nextId = @ + 1])
        /\ PeerSideUnchanged
        /\ UNCHANGED << isAudioEnabled, trackEnabled, initStreamState, deadTracks,
                        windowSegmentation, canvasDrawn, canvasFill >>

\* Mutant: the catch alerts for every rejection.
ScreenShareCatchAlerts(name) == "alert"

\* The catch of toggleScreenShare (lines 355-362): a NotAllowedError returns
\* silently, anything else raises the alert.
ScreenShareCatch(name) == IF name = "NotAllowedError" THEN "ignored" ELSE "alert"

\* toggleScreenShare resumed with the rejection `name` of prompt i (lines 355-362).
ScreenShareRejected(i, name) ==
    /\ sharePrompts' = RemoveAt(sharePrompts, i)
    /\ Render([Cur EXCEPT !.outcome = ScreenShareCatch(name)])
    /\ PeerSideUnchanged
    /\ UNCHANGED << isAudioEnabled, trackEnabled, initStreamState, shareTracks,
                    deadTracks, windowSegmentation, canvasDrawn, canvasFill >>

ScreenShareDenied ==
    \E i \in 1..Len(sharePrompts), name \in Rejections : ScreenShareRejected(i, name)

\* The browser ends a capture: videoTrack.onended (lines 352-354).
ScreenTrackEnded ==
    \E t \in shareTracks \ deadTracks :
        /\ t.kind = "video"
        /\ deadTracks' = deadTracks \cup {t}
        /\ Render([Cur EXCEPT !.screen = Null])
        /\ PeerSideUnchanged
        /\ UNCHANGED << isAudioEnabled, trackEnabled, initStreamState, sharePrompts,
                        shareTracks, windowSegmentation, canvasDrawn, canvasFill >>

\* ------------------------------------------- BackgroundService: its callbacks
ServiceStep(b, drawn, fill, outcome) ==
    /\ bg' = b
    /\ canvasDrawn' = drawn
    /\ canvasFill' = fill
    /\ stepChanges' = 0
    /\ stepPasses' = 0
    /\ stepOutcome' = outcome
    /\ UNCHANGED << webcamStream, processedStream, screenStream, activeStream,
                    isVideoEnabled, isAudioEnabled, backgroundMode, myPeerId,
                    participants, activeStreamRef, hasJoinedRef, activeCallsRef,
                    peerNamesRef, vidSrcObject, targetMeetingId, initStreamState,
                    pendingPlay, sharePrompts, shareTracks, deadTracks,
                    trackEnabled, windowSegmentation, dataConns, untrackedCalls,
                    nextId, nextCall, joinCount, appVars, recVars, unavailable >>

\* The index page's MediaPipe script finishes loading.
ScriptLoaded ==
    /\ ~windowSegmentation
    /\ windowSegmentation' = TRUE
    /\ stepChanges' = 0
    /\ stepPasses' = 0
    /\ stepOutcome' = "none"
    /\ UNCHANGED << webcamStream, processedStream, screenStream, activeStream,
                    isVideoEnabled, isAudioEnabled, backgroundMode, myPeerId,
                    participants, activeStreamRef, hasJoinedRef, activeCallsRef,
                    peerNamesRef, vidSrcObject, bg, targetMeetingId,
                    initStreamState, pendingPlay, sharePrompts, shareTracks,
                    deadTracks, trackEnabled, canvasDrawn, canvasFill, dataConns,
                    untrackedCalls, nextId, nextCall, joinCount, appVars, recVars,
                    unavailable >>

\* The 500 ms retry timer fires (line 128): processStream runs again.
RetryTimerFires ==
    /\ bg.nTimer > 0
    /\ \E init \in InitChoices, vready \in BOOLEAN :
         \E b \in {ProcessStream([bg EXCEPT !.nTimer = @ - 1], windowSegmentation,
                                 init, vready)} :
            ServiceStep(b, canvasDrawn, canvasFill,
                        IF ~bg.selfieSegmentation /\ b.selfieSegmentation
                        THEN "initialized" ELSE "none")

\* onResults (lines 59-113): canvas and ctx are set by the processStream call that
\* precedes every send, so the frame is drawn.
OnResults(b, drawn) == drawn \/ b.onResultsSet

\* ctx.drawImage(this.backgroundImage, ...) (lines 99-105) by the image's state:
\* a loaded image is drawn, an image still loading draws nothing, and an image
\* whose load failed makes drawImage throw.
DrawBackgroundImage(image) ==
    IF image = "loaded" THEN "image"
    ELSE IF image = "failed" THEN "error"
    ELSE "nothing"

\* What onResults draws behind the person (lines 86-110).
Fill(b) ==
    IF b.mode = "BLUR" THEN "blur"
    ELSE IF b.mode = "IMAGE" /\ b.backgroundImage \in {"loading", "loaded", "failed"}
    THEN DrawBackgroundImage(b.backgroundImage)
    ELSE "blur"

\* A send completes: the backend calls onResults, then processFrame resumes
\* (lines 146-156).
SegmentationResult ==
    /\ bg.nSend > 0
    /\ ServiceStep(AfterSend(bg), OnResults(bg, canvasDrawn),
                   IF bg.onResultsSet THEN Fill(bg) ELSE canvasFill,
                   IF bg.onResultsSet THEN "drawn" ELSE "none")

\* A send rejects: the error is caught and processFrame resumes (lines 148-156).
SegmentationFails ==
    /\ bg.nSend > 0
    /\ ServiceStep(AfterSend(bg), canvasDrawn, canvasFill, "send-failed")

\* A requested animation frame runs processFrame (lines 133-157).
AnimationFrame ==
    /\ bg.nRaf > 0
    /\ \E vready \in BOOLEAN :
         ServiceStep(ProcessFrame([bg EXCEPT !.nRaf = @ - 1], vready), canvasDrawn,
                     canvasFill, "none")

\* The background image of the constructor finishes loading (lines 13-14).
ImageLoaded ==
    /\ bg.backgroundImage = "loading"
    /\ ServiceStep([bg EXCEPT !.backgroundImage = "loaded"], canvasDrawn,
                   canvasFill, "none")

\* The background image fails to load.
ImageFailed ==
    /\ bg.backgroundImage = "loading"
    /\ ServiceStep([bg EXCEPT !.backgroundImage = "failed"], canvasDrawn,
                   canvasFill, "none")


\* --------------------------------------------------- MeetingRoom: peer side
StreamSideUnchanged ==
    UNCHANGED << webcamStream, processedStream, screenStream, activeStream,
                 isVideoEnabled, isAudioEnabled, backgroundMode, activeStreamRef,
                 vidSrcObject, bg, targetMeetingId, initStreamState, pendingPlay,
                 sharePrompts, shareTracks, deadTracks, trackEnabled,
                 windowSegmentation, canvasDrawn, canvasFill, nextId, appVars, recVars,
                 unavailable >>

\* A step without a render, whose handler did o besides its state changes.
StepOutcome(o) == stepChanges' = 0 /\ stepPasses' = 0 /\ stepOutcome' = o

NoStep == StepOutcome("none")

\* peer.on('open') (lines 154-157).
PeerOpen ==
    /\ myPeerId = ""
    /\ Render([Cur EXCEPT !.myPeerId = "me"])
    /\ PeerSideUnchanged /\ EnvUnchanged
    /\ UNCHANGED << isAudioEnabled, trackEnabled >>

\* peer.on('connection') (lines 160-162): setupDataConnection on the inbound channel.
IncomingConnection ==
    \E p \in Peers \ unavailable :
        /\ myPeerId # ""
        /\ p \notin dataConns
        /\ dataConns' = dataConns \cup {p}
        /\ NoStep
        /\ StreamSideUnchanged
        /\ UNCHANGED << myPeerId, participants, hasJoinedRef, activeCallsRef,
                        peerNamesRef, untrackedCalls, nextCall, joinCount >>

\* Mutant: the updater renames every Participant.
RenameEveryParticipant(prev, peer, name) ==
    [i \in 1..Len(prev) |-> [prev[i] EXCEPT !.name = name]]

\* setParticipants' updater of lines 243-245.
RenameParticipant(prev, peer, name) ==
    [i \in 1..Len(prev) |->
        IF prev[i].peerId = peer THEN [prev[i] EXCEPT !.name = name] ELSE prev[i]]

\* conn.on('data') with an identify message (lines 237-247).
DataIdentify ==
    \E p \in dataConns \ unavailable, name \in IdentifyNames :
        /\ peerNamesRef' = [peerNamesRef EXCEPT ![p] = name]
        /\ participants' = RenameParticipant(participants, p, name)
        /\ StepOutcome(IF \E i \in 1..Len(participants) : participants[i].peerId = p
                       THEN "renamed" ELSE "cached")
        /\ StreamSideUnchanged
        /\ UNCHANGED << myPeerId, hasJoinedRef, activeCallsRef, dataConns,
                        untrackedCalls, nextCall, joinCount >>

\* peer.on('call') (lines 165-176).
IncomingCall ==
    \E p \in Peers \ unavailable, meta \in MetaNames :
        /\ myPeerId # ""
        /\ nextCall <= MaxCalls
        /\ LET call == NewCall(nextCall, p, "in", meta, activeStreamRef)
               s == IF activeStreamRef # Null
                    THEN HandleCallStream(Cur, call)
                    ELSE [Cur EXCEPT !.untracked = @ \cup {call}]
           IN  /\ activeCallsRef' = s.calls
               /\ untrackedCalls' = s.untracked
        /\ nextCall' = nextCall + 1
        /\ NoStep
        /\ StreamSideUnchanged
        /\ UNCHANGED << myPeerId, participants, hasJoinedRef, peerNamesRef,
                        dataConns, joinCount >>

\* call.peer.substr(0, 4) (line 281).
Substr04(s) == IF Len(s) <= 4 THEN s ELSE SubSeq(s, 1, 4)

\* Mutant: the call's metadata wins over the cached name.
ResolvedNameMetaFirst(names, call) ==
    IF call.metaName # "" THEN call.metaName
    ELSE IF names[call.peer] # "" THEN names[call.peer]
    ELSE "User " \o Substr04(call.peer)

\* The name of lines 279-281.
ResolvedName(names, call) ==
    IF names[call.peer] # "" THEN names[call.peer]
    ELSE IF call.metaName # "" THEN call.metaName
    ELSE "User " \o Substr04(call.peer)

\* setParticipants' updater of lines 272-292.
AddParticipant(prev, names, call) ==
    IF \E i \in 1..Len(prev) : prev[i].peerId = call.peer THEN prev
    ELSE Append(prev, [peerId |-> call.peer, name |-> ResolvedName(names, call)])

\* call.on('stream') of a tracked call (lines 269-293); a peer that does not
\* exist sends no stream.
CallStream ==
    \E i \in 1..Len(activeCallsRef) :
        /\ activeCallsRef[i].peer \notin unavailable
        /\ participants' = AddParticipant(participants, peerNamesRef, activeCallsRef[i])
        /\ NoStep
        /\ StreamSideUnchanged
        /\ UNCHANGED << myPeerId, hasJoinedRef, activeCallsRef, peerNamesRef,
                        dataConns, untrackedCalls, nextCall, joinCount >>

SelectSeq2(seq, Keep(_)) == SelectSeq(seq, Keep)

\* Mutant: the handlers clear the roster.
DropCallClearsRoster(call) ==
    /\ participants' = << >>
    /\ activeCallsRef' = SelectSeq2(activeCallsRef, LAMBDA c : c # call)
    /\ NoStep
    /\ StreamSideUnchanged
    /\ UNCHANGED << myPeerId, hasJoinedRef, peerNamesRef, dataConns,
                    untrackedCalls, nextCall, joinCount >>

\* Mutant: the handlers forget the call and keep its Participant.
DropCallKeepsRoster(call) ==
    /\ participants' = participants
    /\ activeCallsRef' = SelectSeq2(activeCallsRef, LAMBDA c : c # call)
    /\ StepOutcome("none")
    /\ StreamSideUnchanged
    /\ UNCHANGED << myPeerId, hasJoinedRef, peerNamesRef, dataConns,
                    untrackedCalls, nextCall, joinCount >>

\* The two updates of the close and error handlers (lines 297-298, 303-304).
DropCall(call) ==
    /\ participants' = SelectSeq2(participants, LAMBDA q : q.peerId # call.peer)
    /\ activeCallsRef' = SelectSeq2(activeCallsRef, LAMBDA c : c # call)
    /\ StepOutcome(IF \E k \in 1..Len(participants) : participants[k].peerId = call.peer
                   THEN "participant-removed" ELSE "none")
    /\ StreamSideUnchanged
    /\ UNCHANGED << myPeerId, hasJoinedRef, peerNamesRef, dataConns,
                    untrackedCalls, nextCall, joinCount >>

\* call.on('close') of a tracked call (lines 295-299).
CallClose == \E i \in 1..Len(activeCallsRef) : DropCall(activeCallsRef[i])

\* call.on('error') of a tracked call (lines 301-305).
CallError == \E i \in 1..Len(activeCallsRef) : DropCall(activeCallsRef[i])

\* peer.on('error') with type 'peer-unavailable' (lines 178-183): the signalling
\* server reports that the id of an outbound call is not registered. The peer
\* has never been heard of: it has sent no call, stream or data.
PeerUnavailable ==
    \E i \in 1..Len(activeCallsRef) :
        /\ activeCallsRef[i].dir = "out"
        /\ activeCallsRef[i].peer \notin unavailable
        /\ \A c \in untrackedCalls : c.peer # activeCallsRef[i].peer
        /\ \A k \in 1..Len(participants) :
              participants[k].peerId # activeCallsRef[i].peer
        /\ peerNamesRef[activeCallsRef[i].peer] = ""
        /\ unavailable' = unavailable \cup {activeCallsRef[i].peer}
        /\ StepOutcome("alert")
        /\ UNCHANGED << webcamStream, processedStream, screenStream, activeStream,
                        isVideoEnabled, isAudioEnabled, backgroundMode,
                        activeStreamRef, vidSrcObject, bg, targetMeetingId,
                        initStreamState, pendingPlay, sharePrompts, shareTracks,
                        deadTracks, trackEnabled, windowSegmentation, canvasDrawn,
                        canvasFill, nextId, appVars, recVars, myPeerId, participants,
                        hasJoinedRef, activeCallsRef, peerNamesRef, dataConns,
                        untrackedCalls, nextCall, joinCount >>

\* ------------------------------------------------------------ App and Lobby
\* What the Lobby's handlers leave alone: the MeetingRoom is not mounted.
SessionUnchanged ==
    UNCHANGED << webcamStream, processedStream, screenStream, activeStream,
                 isVideoEnabled, isAudioEnabled, backgroundMode, myPeerId,
                 participants, activeStreamRef, hasJoinedRef, activeCallsRef,
                 peerNamesRef, vidSrcObject, bg, targetMeetingId, initStreamState,
                 pendingPlay, sharePrompts, shareTracks, windowSegmentation,
                 canvasDrawn, canvasFill, unavailable, dataConns, untrackedCalls,
                 nextCall, joinCount, stepChanges, stepPasses, stepOutcome,
                 recVars >>

\* The Lobby's track effect (Lobby.tsx lines 62-71): the stream's tracks get the
\* toggles' values.
LobbyTrackEnabled(l, enabled) ==
    IF l.stream # Null THEN [video |-> l.videoEnabled, audio |-> l.audioEnabled]
    ELSE enabled

\* The render that commits a pending setStream (Lobby.tsx line 37): the stream
\* state, which the handlers' closures read, takes the effect's localStream.
LobbyRendered(l) ==
    IF l.camera = "acquired"
    THEN [l EXCEPT !.camera = "granted", !.stream = l.localStream]
    ELSE l

\* startCamera resumed with a stream (Lobby.tsx lines 31-41): kept if the Lobby is
\* still mounted, stopped at once if it is not. The continuation runs outside
\* any event handler, so the render of its setStream is either committed with it
\* or left to a later step.
LobbyCameraGranted ==
    /\ lobby.camera = "pending"
    /\ nextId <= MaxStreams
    /\ nextId' = nextId + 1
    /\ IF appState = "LOBBY"
       THEN /\ \E rendered \in BOOLEAN :
                 \E l \in {[lobby EXCEPT !.camera = "acquired",
                                          !.localStream = CameraStream(nextId)]} :
                    lobby' = IF rendered THEN LobbyRendered(l) ELSE l
            /\ trackEnabled' = LobbyTrackEnabled(lobby', trackEnabled)
            /\ UNCHANGED deadTracks
       ELSE /\ lobby' = [lobby EXCEPT !.camera = "granted"]
            /\ deadTracks' = deadTracks \cup StreamTracks(CameraStream(nextId))
            /\ UNCHANGED trackEnabled
    /\ UNCHANGED << appState, getUserMediaCalls >>
    /\ SessionUnchanged

\* startCamera's catch (Lobby.tsx lines 42-48).
LobbyCameraDenied ==
    /\ lobby.camera = "pending"
    /\ lobby' = IF appState = "LOBBY"
                THEN [lobby EXCEPT !.camera = "denied", !.videoEnabled = FALSE,
                                   !.audioEnabled = FALSE]
                ELSE [lobby EXCEPT !.camera = "denied"]
    /\ UNCHANGED << appState, getUserMediaCalls, nextId, trackEnabled, deadTracks >>
    /\ SessionUnchanged

\* The render scheduled by startCamera's setStream, with the enable-sync effect
\* it triggers (Lobby.tsx lines 37 and 62-71).
LobbyRender ==
    /\ appState = "LOBBY"
    /\ lobby.camera = "acquired"
    /\ lobby' = LobbyRendered(lobby)
    /\ trackEnabled' = LobbyTrackEnabled(lobby', trackEnabled)
    /\ UNCHANGED << appState, getUserMediaCalls, nextId, deadTracks >>
    /\ SessionUnchanged

\* The Lobby's camera button: setVideoEnabled(!videoEnabled).
LobbyToggleVideo ==
    /\ appState = "LOBBY"
    /\ lobby' = LobbyRendered([lobby EXCEPT !.videoEnabled = ~@])
    /\ trackEnabled' = LobbyTrackEnabled(lobby', trackEnabled)
    /\ UNCHANGED << appState, getUserMediaCalls, nextId, deadTracks >>
    /\ SessionUnchanged

\* The Lobby's microphone button: setAudioEnabled(!audioEnabled).
LobbyToggleAudio ==
    /\ appState = "LOBBY"
    /\ lobby' = LobbyRendered([lobby EXCEPT !.audioEnabled = ~@])
    /\ trackEnabled' = LobbyTrackEnabled(lobby', trackEnabled)
    /\ UNCHANGED << appState, getUserMediaCalls, nextId, deadTracks >>
    /\ SessionUnchanged

\* The Lobby's cycleBackground (Lobby.tsx lines 82-86).
LobbyCycleBackground ==
    /\ appState = "LOBBY"
    /\ lobby' = LobbyRendered([lobby EXCEPT !.backgroundMode = NextMode(@)])
    /\ trackEnabled' = LobbyTrackEnabled(lobby', trackEnabled)
    /\ UNCHANGED << appState, getUserMediaCalls, nextId, deadTracks >>
    /\ SessionUnchanged

\* The Lobby's handleJoin (Lobby.tsx lines 73-80), App's handleJoin (App.tsx lines
\* 17-21) and the mount of the MeetingRoom with the props App passes, including
\* initStream's getUserMedia call when no stream is handed over.
HandleJoin ==
    \E meetingId \in {"", HostId} :
      \E s \in {Mount([Props(lobby.stream, lobby.videoEnabled, lobby.backgroundMode,
                             meetingId) EXCEPT !.nextId = nextId])} :
        /\ appState = "LOBBY"
        /\ appState' = "MEETING"
        /\ lobby' = [LobbyUnmounted(lobby.camera)
                         EXCEPT !.localStream = lobby.localStream]
        /\ getUserMediaCalls' = IF lobby.stream = Null THEN getUserMediaCalls + 1
                                ELSE getUserMediaCalls
        /\ initStreamState' = IF lobby.stream = Null THEN "pending" ELSE "none"
        /\ isAudioEnabled' = lobby.audioEnabled
        /\ targetMeetingId' = meetingId
        /\ webcamStream' = s.webcam
        /\ processedStream' = s.processed
        /\ screenStream' = s.screen
        /\ activeStream' = s.active
        /\ backgroundMode' = s.mode
        /\ isVideoEnabled' = s.videoOn
        /\ myPeerId' = s.myPeerId
        /\ activeStreamRef' = s.activeRef
        /\ hasJoinedRef' = s.hasJoined
        /\ activeCallsRef' = s.calls
        /\ untrackedCalls' = s.untracked
        /\ vidSrcObject' = s.vidSrc
        /\ bg' = s.bg
        /\ pendingPlay' = s.play
        /\ dataConns' = s.dataConns
        /\ nextId' = s.nextId
        /\ nextCall' = s.nextCall
        /\ joinCount' = s.joinCount
        /\ NoStep
        /\ UNCHANGED << participants, peerNamesRef, sharePrompts, shareTracks,
                        deadTracks, trackEnabled, windowSegmentation, canvasDrawn,
                        canvasFill, unavailable, recVars >>

\* App at its start: the Lobby is mounted and has asked for the camera; the
\* MeetingRoom does not exist yet (its variables hold what its mount starts from).
InitLobby ==
    /\ appState = "LOBBY"
    /\ lobby = LobbyMounted
    /\ getUserMediaCalls = 1
    /\ webcamStream = Null /\ processedStream = Null /\ screenStream = Null
    /\ activeStream = Null /\ activeStreamRef = Null
    /\ isVideoEnabled = TRUE /\ isAudioEnabled = TRUE /\ backgroundMode = "NONE"
    /\ myPeerId = "" /\ participants = << >> /\ hasJoinedRef = FALSE
    /\ activeCallsRef = << >> /\ peerNamesRef = [p \in Peers |-> ""]
    /\ vidSrcObject = Null /\ bg = BgInit /\ targetMeetingId = ""
    /\ initStreamState = "none" /\ pendingPlay = NoPlay
    /\ sharePrompts = << >> /\ shareTracks = {} /\ deadTracks = {}
    /\ trackEnabled = [video |-> TRUE, audio |-> TRUE]
    /\ windowSegmentation = FALSE /\ canvasDrawn = FALSE /\ canvasFill = "none"
    /\ unavailable = {} /\ stepOutcome = "none"
    /\ dataConns = {} /\ untrackedCalls = {}
    /\ nextId = 1 /\ nextCall = 1 /\ joinCount = 0
    /\ stepChanges = 0 /\ stepPasses = 0
    /\ isRecording = FALSE /\ mediaRecorderRef = 0 /\ recordedChunksRef = << >>
    /\ recorders = << >> /\ recordPrompts = 0 /\ artifacts = << >>

\* ------------------------------------------------- MeetingRoom: recording
\* What toggleRecording and the recorder's events leave alone; o is what the
\* handler did besides its updates.
RecordingOutcome(o) ==
    /\ StepOutcome(o)
    /\ UNCHANGED << webcamStream, processedStream, screenStream, activeStream,
                    isVideoEnabled, isAudioEnabled, backgroundMode, myPeerId,
                    participants, activeStreamRef, hasJoinedRef, activeCallsRef,
                    peerNamesRef, vidSrcObject, bg, targetMeetingId, initStreamState,
                    pendingPlay, sharePrompts, shareTracks, deadTracks, trackEnabled,
                    windowSegmentation, canvasDrawn, canvasFill, dataConns,
                    untrackedCalls, nextId, nextCall, joinCount, appVars,
                    unavailable >>

RecordingStep == RecordingOutcome("none")

\* Mutant: the catch alerts for every rejection.
RecordingCatchAlerts(name) == "alert"

\* The catch of toggleRecording (lines 427-434): a NotAllowedError returns
\* silently, anything else raises the alert.
RecordingCatch(name) == IF name = "NotAllowedError" THEN "ignored" ELSE "alert"

\* new MediaRecorder(recordStream) after start() (lines 391, 416). stopQueued: the
\* task that fires dataavailable and stop is queued; videoEnded: the browser has
\* ended the capture's video track; tracksStopped: onstop has stopped the capture;
\* handlers: the start branch ran to its end, so that onended is registered.
NewRecorder ==
    [state |-> "recording", stopQueued |-> FALSE, videoEnded |-> FALSE,
     tracksStopped |-> FALSE, handlers |-> TRUE]

\* A capture whose encoder could not be constructed or started: the encoder, if
\* there is one, has never left its inactive state.
FailedRecorder ==
    [state |-> "inactive", stopQueued |-> FALSE, videoEnded |-> FALSE,
     tracksStopped |-> FALSE, handlers |-> FALSE]

\* MediaRecorder.stop() on recorder i: the state becomes inactive at once, the
\* events are fired by a queued task; nothing happens to an inactive recorder.
StopRecorder(rs, i) ==
    IF rs[i].state = "inactive" THEN rs
    ELSE [rs EXCEPT ![i].state = "inactive", ![i].stopQueued = TRUE]

\* The guarded stop of lines 369-372 and 421-424: the recorders and isRecording.
StopCurrent(rs, ref, rec) ==
    IF ref # 0 /\ rs[ref].state # "inactive"
    THEN [recorders |-> StopRecorder(rs, ref), isRecording |-> FALSE]
    ELSE [recorders |-> rs, isRecording |-> rec]

\* toggleRecording up to its await (lines 366-384): stop the recorder in the ref,
\* or ask the browser for a capture.
ToggleRecording ==
    /\ appState = "MEETING"
    /\ IF isRecording
       THEN /\ recorders' = StopCurrent(recorders, mediaRecorderRef, isRecording).recorders
            /\ isRecording' = StopCurrent(recorders, mediaRecorderRef, isRecording).isRecording
            /\ UNCHANGED recordPrompts
       ELSE /\ Len(recorders) + recordPrompts < MaxRecorders
            /\ recordPrompts' = recordPrompts + 1
            /\ UNCHANGED << recorders, isRecording >>
    /\ UNCHANGED << mediaRecorderRef, recordedChunksRef, artifacts >>
    /\ RecordingOutcome(IF isRecording THEN "none" ELSE "prompt-notice")

\* toggleRecording resumed with a capture (lines 387-425).
RecordingGranted ==
    /\ appState = "MEETING"
    /\ recordPrompts > 0
    /\ recordPrompts' = recordPrompts - 1
    /\ recorders' = Append(recorders, NewRecorder)
    /\ mediaRecorderRef' = Len(recorders) + 1
    /\ recordedChunksRef' = << >>
    /\ isRecording' = TRUE
    /\ UNCHANGED artifacts
    /\ RecordingStep

\* toggleRecording resumed with a capture, and then `new MediaRecorder` throws
\* (line 391) or, atStart, start() throws (line 416) after the ref and the chunk
\* list were assigned: the catch alerts (lines 427-434).
RecordingStartFails ==
    \E atStart \in BOOLEAN :
        /\ appState = "MEETING"
        /\ recordPrompts > 0
        /\ recordPrompts' = recordPrompts - 1
        /\ recorders' = Append(recorders, FailedRecorder)
        /\ IF atStart
           THEN /\ mediaRecorderRef' = Len(recorders) + 1
                /\ recordedChunksRef' = << >>
           ELSE UNCHANGED << mediaRecorderRef, recordedChunksRef >>
        /\ UNCHANGED << isRecording, artifacts >>
        /\ RecordingOutcome(RecordingCatch("NotSupportedError"))

\* toggleRecording resumed with the rejection `name` (lines 427-434).
RecordingRejected(name) ==
    /\ appState = "MEETING"
    /\ recordPrompts > 0
    /\ recordPrompts' = recordPrompts - 1
    /\ UNCHANGED << recorders, mediaRecorderRef, recordedChunksRef, isRecording,
                    artifacts >>
    /\ RecordingOutcome(RecordingCatch(name))

RecordingDenied == \E name \in Rejections : RecordingRejected(name)

\* The browser ends the video track of recorder i's capture; its onended handler
\* runs (lines 420-425).
RecordTrackEnded ==
    \E i \in 1..Len(recorders) :
        /\ appState = "MEETING"
        /\ recorders[i].handlers
        /\ ~recorders[i].videoEnded /\ ~recorders[i].tracksStopped
        /\ LET ended == [recorders EXCEPT ![i].videoEnded = TRUE]
               r == StopCurrent(ended, mediaRecorderRef, isRecording)
           IN  recorders' = r.recorders /\ isRecording' = r.isRecording
        /\ UNCHANGED << mediaRecorderRef, recordedChunksRef, recordPrompts, artifacts >>
        /\ RecordingStep

\* The browser ends every track of recorder i's capture and the encoder, left
\* without a live track, stops by itself before the track's onended handler runs
\* (lines 420-425): the handler then finds the encoder of the ref as it is now.
RecorderStopsItself ==
    \E i \in 1..Len(recorders) :
        /\ appState = "MEETING"
        /\ recorders[i].state = "recording"
        /\ ~recorders[i].videoEnded /\ ~recorders[i].tracksStopped
        /\ LET ended == StopRecorder([recorders EXCEPT ![i].videoEnded = TRUE], i)
               r == StopCurrent(ended, mediaRecorderRef, isRecording)
           IN  recorders' = r.recorders /\ isRecording' = r.isRecording
        /\ UNCHANGED << mediaRecorderRef, recordedChunksRef, recordPrompts, artifacts >>
        /\ RecordingStep

\* The queued task of a stopped recorder: ondataavailable (lines 395-399) pushes
\* the data if it is not empty, then onstop (lines 401-414) downloads the chunks
\* and stops the capture's tracks.
RecorderStopEvent ==
    \E i \in 1..Len(recorders), hasData \in BOOLEAN :
        /\ recorders[i].stopQueued
        /\ LET chunks == IF hasData THEN Append(recordedChunksRef, i)
                         ELSE recordedChunksRef
           IN  /\ recordedChunksRef' = chunks
               /\ artifacts' = Append(artifacts, chunks)
        /\ recorders' = [recorders EXCEPT ![i].stopQueued = FALSE,
                                          ![i].tracksStopped = TRUE]
        /\ UNCHANGED << isRecording, mediaRecorderRef, recordPrompts >>
        /\ RecordingStep

\* handleEndCallSafe (lines 438-460) and App's handleEndCall (App.tsx lines 23-31):
\* appState "ENDED" is App back in its LOBBY state after onEndCall.
EndCall ==
    /\ appState = "MEETING"
    /\ recorders' = IF isRecording /\ mediaRecorderRef # 0
                    THEN StopRecorder(recorders, mediaRecorderRef) ELSE recorders
    /\ deadTracks' = deadTracks \cup StreamTracks(webcamStream)
                        \cup StreamTracks(screenStream) \cup StreamTracks(processedStream)
    /\ bg' = Stop(bg)
    /\ appState' = "ENDED"
    /\ NoStep
    /\ UNCHANGED << webcamStream, processedStream, screenStream, activeStream,
                    isVideoEnabled, isAudioEnabled, backgroundMode, myPeerId,
                    participants, activeStreamRef, hasJoinedRef, activeCallsRef,
                    peerNamesRef, vidSrcObject, targetMeetingId, initStreamState,
                    pendingPlay, sharePrompts, shareTracks, trackEnabled,
                    windowSegmentation, canvasDrawn, canvasFill, unavailable,
                    dataConns, untrackedCalls,
                    nextId, nextCall, joinCount, lobby, getUserMediaCalls,
                    isRecording, mediaRecorderRef, recordedChunksRef, recordPrompts,
                    artifacts >>

\* initStream resumed after getUserMedia resolves (lines 73-78) when the
\* MeetingRoom is no longer mounted: the setState calls do nothing, the ref of the
\* discarded component still takes the stream, and nothing stops the stream.
InitStreamResolvedLate ==
    /\ appState = "ENDED"
    /\ initStreamState = "pending"
    /\ initStreamState' = "done"
    /\ nextId' = nextId + 1
    /\ activeStreamRef' = IF activeStreamRef = Null THEN CameraStream(nextId)
                          ELSE activeStreamRef
    /\ trackEnabled' = [video |-> TRUE, audio |-> TRUE]
    /\ NoStep
    /\ UNCHANGED << webcamStream, processedStream, screenStream, activeStream,
                    isVideoEnabled, isAudioEnabled, backgroundMode, myPeerId,
                    participants, hasJoinedRef, activeCallsRef, peerNamesRef,
                    vidSrcObject, bg, targetMeetingId, pendingPlay, sharePrompts,
                    shareTracks, deadTracks, windowSegmentation, canvasDrawn,
                    canvasFill, unavailable, dataConns, untrackedCalls, nextCall,
                    joinCount, appVars, recVars >>

PeerNext ==
    \/ PeerOpen \/ IncomingConnection \/ DataIdentify \/ IncomingCall
    \/ CallStream \/ CallClose \/ CallError

StreamNext ==
    \/ InitStreamResolved \/ InitStreamDenied
    \/ ToggleVideo \/ ToggleAudio \/ CycleBackground \/ PlayResolved
    \/ ToggleScreenShareIdle \/ ScreenShareGranted \/ ScreenShareDenied
    \/ ScreenTrackEnded

ServiceNext ==
    \/ ScriptLoaded \/ RetryTimerFires \/ SegmentationResult
    \/ SegmentationFails \/ AnimationFrame \/ ImageLoaded \/ ImageFailed

\* The stream side of a session that was started without a meeting id.
Next == StreamNext

InitStreams == Init /\ targetMeetingId = ""

Spec == InitStreams /\ [][Next]_vars

\* The camera, the background mode and the compositor's own callbacks.
NextCompositor ==
    \/ InitStreamResolved \/ InitStreamDenied \/ ToggleVideo \/ CycleBackground
    \/ PlayResolved \/ ServiceNext

InitCompositor == Init /\ targetMeetingId = "" /\ isAudioEnabled = TRUE

SpecCompositor == InitCompositor /\ [][NextCompositor]_vars

\* A retry whose ensureInitialized call creates the backend.
RetryInitializes == RetryTimerFires /\ bg'.nInit > bg.nInit

\* The compositor under the browser's scheduling: a pending timer fires, the
\* script of the index page finishes loading, and the backend, tried again and
\* again, is eventually constructed.
SpecRetry ==
    /\ InitCompositor /\ [][NextCompositor]_vars
    /\ WF_vars(RetryTimerFires) /\ WF_vars(ScriptLoaded)
    /\ SF_vars(RetryInitializes)

\* The peer side, over the stream events that give, change or withhold the
\* active source.
NextPeers ==
    \/ PeerOpen \/ IncomingCall \/ CallStream \/ CallClose \/ CallError
    \/ InitStreamResolved \/ InitStreamDenied \/ CycleBackground \/ PlayResolved

InitPeers == Init /\ isAudioEnabled = TRUE

SpecPeers == InitPeers /\ [][NextPeers]_vars

\* Names: identify messages and first streams of the peers in either order,
\* with the camera granted at some point of the session.
NextNames ==
    \/ PeerOpen \/ IncomingConnection \/ DataIdentify \/ IncomingCall
    \/ CallStream \/ CallClose \/ InitStreamResolved

InitNames ==
    Init /\ isAudioEnabled = TRUE /\ isVideoEnabled = TRUE /\ backgroundMode = "NONE"

SpecNames == InitNames /\ [][NextNames]_vars

\* A join whose target may not exist, next to the calls of the peers that do.
NextJoin ==
    \/ PeerOpen \/ InitStreamResolved \/ PeerUnavailable \/ IncomingCall
    \/ CallStream \/ CallClose \/ CallError

InitJoin == InitNames /\ targetMeetingId = HostId

SpecJoin == InitJoin /\ [][NextJoin]_vars

\* Screen sharing while peers call in, with the camera live, pending or denied.
NextReplace ==
    \/ PeerOpen \/ IncomingCall \/ InitStreamResolved \/ InitStreamDenied
    \/ ToggleScreenShareIdle \/ ScreenShareGranted \/ ScreenShareDenied
    \/ ScreenTrackEnded

InitReplace ==
    Init /\ isAudioEnabled = TRUE /\ isVideoEnabled = TRUE /\ backgroundMode = "NONE"

SpecReplace == InitReplace /\ [][NextReplace]_vars

\* Screen sharing with the share button pressed again while a capture prompt is
\* still open, with the camera live and no background.
NextShare ==
    \/ ToggleScreenShare \/ ScreenShareGranted \/ ScreenShareDenied
    \/ ScreenTrackEnded \/ ToggleAudio

InitShare == InitReplace /\ targetMeetingId = "" /\ webcamStream # Null

SpecShare == InitShare /\ [][NextShare]_vars

\* The end of a session whose camera was handed over by the Lobby, or is
\* acquired by the session itself before or after the end.
NextEnd ==
    \/ EndCall \/ InitStreamResolvedLate
    \/ /\ appState = "MEETING"
       /\ \/ InitStreamResolved \/ InitStreamDenied \/ ToggleVideo \/ ToggleAudio
          \/ CycleBackground \/ PlayResolved

SpecEnd == InitStreams /\ [][NextEnd]_vars

\* Recording and the end of the session, over a few stream events; once the
\* session has ended only the recorders' queued events remain.
NextRecording ==
    \/ ToggleRecording \/ RecordingGranted \/ RecordingDenied \/ RecordTrackEnded
    \/ RecorderStopsItself \/ RecorderStopEvent \/ EndCall
    \/ RecordingStartFails
    \/ /\ appState = "MEETING"
       /\ \/ ToggleScreenShareIdle \/ ScreenShareGranted \/ CycleBackground
          \/ PlayResolved

InitRecording ==
    /\ Init /\ targetMeetingId = "" /\ isAudioEnabled = TRUE /\ isVideoEnabled = TRUE
    /\ webcamStream # Null

SpecRecording == InitRecording /\ [][NextRecording]_vars

\* The application from its start: the Lobby, the join, and the session's
\* camera, peer and background events.
NextLobby ==
    \/ LobbyCameraGranted \/ LobbyCameraDenied \/ LobbyRender
    \/ LobbyToggleVideo \/ LobbyToggleAudio \/ LobbyCycleBackground \/ HandleJoin
    \/ /\ appState = "MEETING"
       /\ \/ InitStreamResolved \/ InitStreamDenied \/ PeerOpen
          \/ CycleBackground \/ PlayResolved \/ ToggleVideo \/ ToggleAudio

SpecLobby == InitLobby /\ [][NextLobby]_vars

\* The background mode from the Lobby on: its cycle in the Lobby, a join made
\* once the Lobby has its camera, and in the session the cycle next to a toggle,
\* screen sharing, recording and the peers' events.
NextModes ==
    \/ LobbyCameraGranted \/ LobbyCycleBackground
    \/ /\ lobby.camera = "granted"
       /\ HandleJoin
    \/ /\ appState = "MEETING"
       /\ \/ CycleBackground \/ PlayResolved \/ ToggleVideo
          \/ ToggleScreenShareIdle \/ ScreenShareGranted
          \/ ToggleRecording \/ RecordingGranted
          \/ PeerOpen \/ CallStream \/ CallClose

SpecModes == InitLobby /\ [][NextModes]_vars

\* ==================================================================== claims

\* C1: whenever a screen source exists, the active source (state and ref) is that
\* screen source, whatever the background mode and whether or not a composited
\* stream exists.
C1_ScreenOutranks ==
    screenStream # Null =>
        activeStreamRef = screenStream /\ activeStream = screenStream

\* C1 witness: a screen share is active while the mode is not NONE and a
\* composited stream exists.
C1_Witness ==
    /\ screenStream # Null
    /\ backgroundMode # "NONE"
    /\ processedStream # Null
    /\ webcamStream # Null

\* C2 (as claimed): with the camera live, video enabled and no screen share, the
\* active source is the Virtual source exactly when the mode is not NONE and a
\* composited frame exists, and the Camera source otherwise.
C2_VirtualIffFrame ==
    (webcamStream # Null /\ isVideoEnabled /\ screenStream = Null
        /\ ~pendingPlay.pending)
    => IF backgroundMode # "NONE" /\ canvasDrawn
       THEN activeStreamRef.kind = "Virtual"
       ELSE activeStreamRef = webcamStream

\* C3 (as claimed): the Virtual source is never active while the compositor has
\* drawn no frame; with no screen share the active source is then the camera.
C3_NoVirtualBeforeFrame ==
    ~canvasDrawn =>
        /\ activeStreamRef.kind # "Virtual"
        /\ screenStream = Null => activeStreamRef = webcamStream

\* C4: in every step the number of runs of the track-replacement effect equals
\* the number of identity changes of the active source: one run per recompute
\* that selects a different source, none for a recompute that selects the same.
C4_PassPerChange == stepPasses = stepChanges

\* C4 witness: one handler (a mode change over a left-over composited stream)
\* changed the active source twice, and the effect ran twice.
C4_Witness == stepChanges = 2 /\ stepPasses = 2

TrackedVideo(calls) == [i \in 1..Len(calls) |-> calls[i].sv]

\* C5 (as claimed): with camera live, video enabled, no screen share, two tracked
\* connections and the Virtual source active, the BLUR -> IMAGE step replaces no
\* connection's outbound video track.
C5_BlurToImageKeepsTracks ==
    [][ ( /\ backgroundMode = "BLUR" /\ backgroundMode' = "IMAGE"
          /\ webcamStream # Null /\ isVideoEnabled /\ screenStream = Null
          /\ activeStreamRef.kind = "Virtual"
          /\ Len(activeCallsRef) = 2 )
        => TrackedVideo(activeCallsRef') = TrackedVideo(activeCallsRef) ]_vars

\* C6 (as claimed): at most one frame loop (retry timer, awaited send or pending
\* animation frame) is scheduled at any time.
C6_OneLoop == LoopCount(bg) <= 1

\* C7 (as claimed): once stop() has made the compositor inactive, no callback of
\* the service itself (retry timer, send completion, animation frame) makes it
\* active again.
C7_StaysStopped == [][ (~bg.active /\ ServiceNext) => ~bg.active' ]_vars

\* C8: connectToHost runs at most once; it runs only with a target id, the local
\* peer id and a non-null active source; and it has run as soon as all three
\* exist, in whichever order they arrive.
C8_JoinOnce ==
    /\ [] ( /\ joinCount <= 1
            /\ joinCount = 1 => (targetMeetingId # "" /\ myPeerId # "" /\ hasJoinedRef)
            /\ (targetMeetingId # "" /\ myPeerId # "" /\ activeStreamRef # Null)
               => joinCount = 1 )
    /\ [][ joinCount' # joinCount =>
             /\ joinCount = 0 /\ joinCount' = 1
             /\ myPeerId' # "" /\ activeStreamRef' # Null ]_vars

\* C8 witness: the join has happened, its call is tracked, and the active source
\* has changed since (it is no longer the stream the call was placed with).
C8_Witness ==
    /\ joinCount = 1
    /\ \E i \in 1..Len(activeCallsRef) : activeCallsRef[i].dir = "out"
    /\ activeStreamRef.kind = "Virtual"

CallsOf(calls, peer) == { i \in 1..Len(calls) : calls[i].peer = peer }
ParticipantsOf(prev, peer) == { i \in 1..Len(prev) : prev[i].peerId = peer }

\* The peers of the call objects created in this step.
NewCallPeers ==
    { c.peer : c \in { d \in untrackedCalls' : d.cid = nextCall } }
    \cup { activeCallsRef'[i].peer :
             i \in { j \in 1..Len(activeCallsRef') : activeCallsRef'[j].cid = nextCall } }

C10_EmptyAnswerTracked ==
    \A c \in untrackedCalls : ~(c.dir = "in" /\ c.sv = NoTrack /\ c.sa = NoTrack)

CallIds(calls) == { calls[i].cid : i \in 1..Len(calls) }

\* C11 (as claimed): whenever the active source changes to a non-null source S,
\* every tracked connection then sends S's video track and S's audio track, and
\* no connection has left the tracked list.
C11_ReplaceAll ==
    [][ (activeStreamRef' # activeStreamRef /\ activeStreamRef' # Null) =>
          /\ CallIds(activeCallsRef) \subseteq CallIds(activeCallsRef')
          /\ \A i \in 1..Len(activeCallsRef') :
                /\ activeStreamRef'.v # NoTrack =>
                      activeCallsRef'[i].sv = activeStreamRef'.v
                /\ activeStreamRef'.a # NoTrack =>
                      activeCallsRef'[i].sa = activeStreamRef'.a ]_vars

\* C12 (as claimed): the active source reference is null or a source none of whose
\* tracks has been stopped or has ended.
C12_ActiveLive ==
    activeStreamRef = Null \/ StreamTracks(activeStreamRef) \cap deadTracks = {}

Recording(rs) == { i \in 1..Len(rs) : rs[i].state = "recording" }

\* C13 (as claimed): at most one recording (capture source plus encoder) is
\* active at any time.
C13_OneRecording == Cardinality(Recording(recorders)) <= 1

\* C14 (as claimed): when handleEndCallSafe calls onEndCall, the tracks of the
\* camera, screen and virtual sources are stopped, the compositor is inactive,
\* and every recording that was active is finalized: its artifact is downloaded
\* and its capture's tracks are stopped.
C14_ReleasedAtEnd ==
    [][ (appState = "MEETING" /\ appState' = "ENDED") =>
          /\ (StreamTracks(webcamStream) \cup StreamTracks(screenStream)
                 \cup StreamTracks(processedStream)) \subseteq deadTracks'
          /\ ~bg'.active
          /\ \A i \in Recording(recorders) :
                /\ recorders'[i].state = "inactive" /\ ~recorders'[i].stopQueued
                /\ recorders'[i].tracksStopped
                /\ Len(artifacts') = Len(artifacts) + 1 ]_vars

\* C16 (as claimed): when the browser ends the capture video track of an active
\* recording, that recording stops in the same step and isRecording becomes
\* false; the stop event of a recorder then adds exactly one artifact, made of
\* the chunks collected, and stops the capture's tracks.
C16_RevokedStops ==
    [][ \A i \in 1..Len(recorders) :
          /\ (recorders[i].state = "recording" /\ ~recorders[i].videoEnded
                 /\ recorders'[i].videoEnded)
             => (recorders'[i].state = "inactive" /\ recorders'[i].stopQueued
                   /\ ~isRecording')
          /\ (recorders[i].stopQueued /\ ~recorders'[i].stopQueued)
             => /\ artifacts' = Append(artifacts, recordedChunksRef')
                /\ recorders'[i].tracksStopped ]_vars

C17_DropsOnlyThatCall ==
    [][ (CallClose \/ CallError) =>
          \E i \in 1..Len(activeCallsRef) :
              /\ activeCallsRef' = RemoveAt(activeCallsRef, i)
              /\ Len(participants') >= Len(participants) - 1
              /\ \A k \in 1..Len(participants') :
                    participants'[k].peerId # activeCallsRef[i].peer
              /\ \A k \in 1..Len(participants) :
                    participants[k].peerId # activeCallsRef[i].peer =>
                        \E m \in 1..Len(participants') :
                            participants'[m] = participants[k] ]_vars

\* C17 witness: two inbound calls from different peers were both tracked; one
\* has been dropped, the other and its Participant remain.
C17_Witness ==
    /\ nextCall = 3 /\ untrackedCalls = {} /\ joinCount = 0
    /\ Len(activeCallsRef) = 1 /\ Len(participants) = 1
    /\ participants[1].peerId = activeCallsRef[1].peer

\* C18 (as claimed): once the Lobby's camera request has been denied, the Lobby
\* and then the session have video and audio both off and no camera source.
C18_DeniedForcesOff ==
    lobby.camera = "denied" =>
        IF appState = "LOBBY"
        THEN ~lobby.videoEnabled /\ ~lobby.audioEnabled /\ lobby.stream = Null
        ELSE ~isVideoEnabled /\ ~isAudioEnabled /\ webcamStream = Null

\* C19: a step that starts a screen share while the Virtual source is active
\* makes the screen source active and leaves the compositor (which is active)
\* and the composited stream as they are; a step that ends a screen share while
\* the mode is not NONE and a composited stream exists makes that same stream
\* the active source, again without touching the compositor.
C19_ShareKeepsVirtual ==
    [][ /\ (screenStream = Null /\ screenStream' # Null
              /\ activeStreamRef.kind = "Virtual")
           => /\ activeStreamRef' = screenStream'
              /\ processedStream' = processedStream
              /\ bg' = bg /\ bg'.active
        /\ (screenStream # Null /\ screenStream' = Null
              /\ backgroundMode # "NONE" /\ processedStream # Null)
           => /\ activeStreamRef' = processedStream
              /\ processedStream' = processedStream
              /\ bg' = bg ]_vars

\* C19 witness: the Virtual source is active again after a screen share that was
\* started later than the composited stream was created, and has ended.
C19_Witness ==
    /\ screenStream = Null
    /\ processedStream # Null /\ activeStreamRef = processedStream
    /\ \E tr \in deadTracks : tr.kind = "video" /\ tr.src > processedStream.id

\* C20 (as claimed): the screen source carries the capture's own audio track when
\* the capture has one, and the Virtual source carries an audio track.
C20_CaptureAudioPreferred ==
    /\ (screenStream # Null /\ AudioTrack(screenStream.id) \in shareTracks)
          => screenStream.a = AudioTrack(screenStream.id)
    /\ processedStream # Null => processedStream.a # NoTrack

\* C21: a newly created remote Participant is named by the name cached from the
\* identity channel for its peer id if there is one, otherwise by the name in the
\* call's metadata if there is one, otherwise by "User " followed by the first
\* four characters of the remote id.
C21_FirstFour == ("ab12cd" :> "ab12") @@ ("xy9" :> "xy9")

C21_NamePrecedence ==
    [][ \A i \in 1..Len(participants') :
          ParticipantsOf(participants, participants'[i].peerId) = {} =>
            \E c \in { activeCallsRef[k] :
                        k \in CallsOf(activeCallsRef, participants'[i].peerId) } :
               participants'[i].name =
                 IF peerNamesRef[c.peer] # "" THEN peerNamesRef[c.peer]
                 ELSE IF c.metaName # "" THEN c.metaName
                 ELSE "User " \o C21_FirstFour[c.peer] ]_vars

\* C21 witness: the roster holds a Participant with the fallback name of an id
\* longer than four characters, next to one named from a cache that overrode
\* the metadata of its call.
C21_Witness ==
    /\ \E i \in 1..Len(participants) :
          participants[i].peerId = "ab12cd" /\ participants[i].name = "User ab12"
    /\ \E i \in 1..Len(participants) :
          /\ participants[i].name = "Ann"
          /\ \E k \in CallsOf(activeCallsRef, participants[i].peerId) :
                activeCallsRef[k].metaName = "Cy"

\* C22: in either arrival order of a peer's identify message and its first
\* stream, the Participant of that peer carries the name of the identify message:
\* a Participant whose peer has a cached name always shows that name, and the step
\* that receives an identify message keeps the roster's length and ids and
\* changes nothing but the name of that peer's Participant.
C22_Named ==
    \A i \in 1..Len(participants) :
       peerNamesRef[participants[i].peerId] # "" =>
          participants[i].name = peerNamesRef[participants[i].peerId]

C22_IdentifyStep ==
    peerNamesRef' # peerNamesRef =>
       /\ Len(participants') = Len(participants)
       /\ \A i \in 1..Len(participants) :
             IF peerNamesRef'[participants[i].peerId] # peerNamesRef[participants[i].peerId]
             THEN participants'[i] =
                    [participants[i] EXCEPT !.name = peerNamesRef'[participants[i].peerId]]
             ELSE participants'[i] = participants[i]

C22_IdentifyEitherOrder == [](C22_Named) /\ [][C22_IdentifyStep]_vars

\* C22 witness: two Participants, one renamed in place by an identify message
\* that came after its stream, the other left with the name of its metadata.
C22_Witness ==
    /\ Len(participants) = 2
    /\ participants[1].name = "Ann" /\ peerNamesRef[participants[1].peerId] = "Ann"
    /\ participants[2].name = "Cy" /\ peerNamesRef[participants[2].peerId] = ""
    /\ stepOutcome = "renamed"

\* C23: when the recording prompt is denied (NotAllowedError), the step leaves
\* the recording state as it was (isRecording, the encoder in the ref and the
\* encoders created, the chunks held, the downloads) and raises no alert; when
\* no other request was granted in between, isRecording is still false.
C23_DenialIsSilent ==
    [][ RecordingRejected("NotAllowedError") =>
          /\ UNCHANGED << isRecording, mediaRecorderRef, recordedChunksRef,
                          recorders, artifacts >>
          /\ stepOutcome' # "alert"
          /\ (recorders = << >> => ~isRecording') ]_vars

\* C23 witness: the only request of the session was denied silently; nothing is
\* recording and no encoder exists.
C23_Witness ==
    /\ appState = "MEETING" /\ stepOutcome = "ignored"
    /\ ~isRecording /\ recorders = << >> /\ recordPrompts = 0
    /\ mediaRecorderRef = 0 /\ recordedChunksRef = << >>

\* C24: the background mode changes only through cycleBackground, in the Lobby
\* and in the session, and a cycle maps NONE to BLUR, BLUR to IMAGE and IMAGE to
\* NONE, so that three cycles return to the starting mode; the join hands the
\* Lobby's mode to the session, and no toggle, screen-share, recording or peer
\* step changes the mode.
C24_CycleMap == ("NONE" :> "BLUR") @@ ("BLUR" :> "IMAGE") @@ ("IMAGE" :> "NONE")

C24_ModeStep ==
    /\ (appState = "MEETING" /\ appState' = "MEETING") =>
          /\ backgroundMode' # backgroundMode => CycleBackground
          /\ CycleBackground => backgroundMode' = C24_CycleMap[backgroundMode]
    /\ (appState = "LOBBY" /\ appState' = "LOBBY") =>
          /\ lobby'.backgroundMode # lobby.backgroundMode => LobbyCycleBackground
          /\ LobbyCycleBackground =>
                lobby'.backgroundMode = C24_CycleMap[lobby.backgroundMode]
    /\ (appState = "LOBBY" /\ appState' = "MEETING") =>
          backgroundMode' = lobby.backgroundMode

C24_OnlyCycleChangesMode ==
    /\ [](\A m \in Modes : NextMode(NextMode(NextMode(m))) = m)
    /\ [][C24_ModeStep]_vars

\* C24 witness: the session's mode is back at NONE after cycles that took the
\* compositor through IMAGE, while a screen is shared, a recording runs and a
\* peer is in the roster.
C24_Witness ==
    /\ appState = "MEETING" /\ backgroundMode = "NONE" /\ bg.mode = "IMAGE"
    /\ screenStream # Null /\ isRecording /\ Len(participants) = 1

\* C25: a processStream call that finds the backend not loaded raises nothing and
\* leaves a retry pending; if the compositor stays active and the backend becomes
\* available, a retry creates the backend and the frame loop runs; the backend
\* is created at most once.
C25_RetryPending == bg.active /\ ~bg.selfieSegmentation /\ bg.nTimer > 0

C25_LoopRunning == bg.selfieSegmentation /\ bg.nSend + bg.nRaf > 0

C25_RetryInitializesOnce ==
    /\ [](bg.nInit <= 1)
    /\ []((bg.active /\ ~bg.selfieSegmentation /\ vidSrcObject # Null) => bg.nTimer > 0)
    /\ [][RetryTimerFires => stepOutcome' \in {"none", "initialized"}]_vars
    /\ (C25_RetryPending ~> (~bg.active \/ C25_LoopRunning))

\* C25 witness: a retry has just created the backend, with its result handler,
\* and the frame loop runs.
C25_Witness ==
    /\ stepOutcome = "initialized" /\ bg.active /\ bg.nInit = 1
    /\ bg.onResultsSet /\ C25_LoopRunning

\* C26: a failed segmentation send does not end the frame loop: while the
\* compositor is active, the step that handles the failure requests the next
\* animation frame in place of the send that failed, leaves the compositor
\* active, and changes nothing outside the service (nothing reaches the caller
\* of processStream).
C26_FailedSendKeepsLoop ==
    [][ SegmentationFails =>
          /\ bg'.active = bg.active
          /\ bg.active => /\ bg'.nRaf = bg.nRaf + 1
                          /\ bg'.nSend = bg.nSend - 1
                          /\ LoopCount(bg') = LoopCount(bg)
          /\ stepOutcome' = "send-failed"
          /\ UNCHANGED << processedStream, activeStream, isVideoEnabled,
                          backgroundMode, vidSrcObject, pendingPlay >> ]_vars

\* C26 witness: a send has just failed and the active compositor has its next
\* frame requested.
C26_Witness ==
    stepOutcome = "send-failed" /\ bg.active /\ bg.nRaf > 0 /\ bg.selfieSegmentation

\* C27: in IMAGE mode with a background image that failed to load, a composited
\* frame is filled with the blurred camera frame; the image fill is used only
\* when the image loaded. (Violated: the test of line 98 is on the Image object,
\* which always exists, so the failed image is handed to drawImage.)
C27_FailedImageBlurs ==
    stepOutcome = "drawn" =>
       /\ (bg.mode = "IMAGE" /\ bg.backgroundImage = "failed") => canvasFill = "blur"
       /\ canvasFill = "image" => bg.backgroundImage = "loaded"

\* C28: once stop() has set the compositor inactive, a segmentation result that
\* was in flight draws nothing: no step taken while the compositor is inactive
\* draws a composited frame. (Violated: onResults tests the canvas and its
\* context only.)
C28_NoDrawAfterStop ==
    [][ ~bg.active => (stepOutcome' # "drawn" /\ canvasFill' = canvasFill) ]_vars

\* C29: after a peer-unavailable error for the id of a join, the tracked list
\* holds no call to that id and the roster holds no Participant for it.
\* (Violated: the error handler only alerts; the call stays tracked.)
C29_UnavailableTornDown ==
    \A p \in unavailable :
       CallsOf(activeCallsRef, p) = {} /\ ParticipantsOf(participants, p) = {}

\* C30: a second inbound call from a peer that already has a tracked call is
\* ignored: the new call gets no outbound media, and the tracked list and the
\* roster stay as they are. (Violated: the call is answered with the active
\* source before the duplicate check runs.)
C30_DuplicateIgnored ==
    [][ \A c \in untrackedCalls' \ untrackedCalls :
          (c.dir = "in" /\ c.peer \in TrackedPeers(activeCallsRef)) =>
             /\ c.sv = NoTrack /\ c.sa = NoTrack
             /\ activeCallsRef' = activeCallsRef
             /\ participants' = participants ]_vars

\* C31: every Participant of the roster has the peer id of a tracked call; a
\* Participant appears only for a peer whose call is tracked, and when a call
\* leaves the tracked list no Participant of its peer remains.
C31_Step ==
    /\ \A i \in 1..Len(participants') :
          ParticipantsOf(participants, participants'[i].peerId) = {} =>
             participants'[i].peerId \in TrackedPeers(activeCallsRef)
    /\ \A p \in TrackedPeers(activeCallsRef) \ TrackedPeers(activeCallsRef') :
          ParticipantsOf(participants', p) = {}

C31_RosterIsTracked ==
    /\ [](\A i \in 1..Len(participants) :
             participants[i].peerId \in TrackedPeers(activeCallsRef))
    /\ [][C31_Step]_vars

\* C31 witness: the call of a peer has just closed and taken its Participant
\* with it, while another peer's call is tracked and has its Participant.
C31_Witness ==
    /\ stepOutcome = "participant-removed"
    /\ Len(participants) = 1 /\ Len(activeCallsRef) = 1
    /\ participants[1].peerId = activeCallsRef[1].peer

\* C32: when the screen-capture request of toggleScreenShare is rejected, the
\* session is as it was: the screen source (null unless another request was
\* granted meanwhile), the active source and its ref, the tracked calls and
\* their senders are unchanged, no track is stopped, the track-replacement
\* effect does not run, and a NotAllowedError raises no alert.
C32_RejectionChangesNothing ==
    [][ \A i \in 1..Len(sharePrompts), name \in Rejections :
          ScreenShareRejected(i, name) =>
             /\ UNCHANGED << screenStream, activeStream, activeStreamRef,
                             webcamStream, processedStream, activeCallsRef,
                             deadTracks, shareTracks, bg >>
             /\ stepChanges' = 0 /\ stepPasses' = 0
             /\ (shareTracks = {} => screenStream' = Null)
             /\ (name = "NotAllowedError" => stepOutcome' # "alert") ]_vars

\* C32 witness: the session's only capture request was denied by the user while
\* a call is tracked; no screen source exists, the camera is the active source,
\* nothing was alerted.
C32_Witness ==
    /\ stepOutcome = "ignored" /\ sharePrompts = << >> /\ shareTracks = {}
    /\ screenStream = Null /\ webcamStream # Null /\ activeStream = webcamStream
    /\ Len(activeCallsRef) > 0

\* C33: a recording stopped by toggleRecording leaves isRecording false, and its
\* stop event produces exactly one artifact, made of the chunks of that recording
\* and of no other, and stops the tracks of its capture. (Violated: the chunk
\* list is one ref shared by every encoder.)
C33_OwnChunksOnly ==
    [][ /\ (ToggleRecording /\ isRecording) => ~isRecording'
        /\ \A i \in 1..Len(recorders) :
              (recorders[i].stopQueued /\ ~recorders'[i].stopQueued) =>
                 /\ Len(artifacts') = Len(artifacts) + 1
                 /\ \A k \in 1..Len(artifacts'[Len(artifacts')]) :
                       artifacts'[Len(artifacts')][k] = i
                 /\ recorders'[i].tracksStopped ]_vars

\* C34: stopping a screen share with toggleScreenShare stops tracks of the screen
\* capture only: no track of the camera source is stopped by that step.
\* (Violated: the screen source holds the camera's microphone track, and every
\* track of the screen source is stopped.)
C34_StopSparesCamera ==
    [][ (ToggleScreenShare /\ screenStream # Null) =>
          /\ (deadTracks' \ deadTracks) \subseteq shareTracks
          /\ StreamTracks(webcamStream) \cap deadTracks' =
                StreamTracks(webcamStream) \cap deadTracks ]_vars

LiveShareVideo == { tr \in shareTracks \ deadTracks : tr.kind = "video" }

\* C35: however toggleScreenShare calls interleave with open capture prompts, at
\* most one video track of a screen capture is live, a live one is the video
\* track of the current screen source, and the end of a capture that is not the
\* current screen source leaves the current screen source in place. (Violated:
\* a second grant replaces the screen source without stopping the first
\* capture, and every capture's onended sets the screen source to null.)
C35_OneLiveCapture ==
    /\ [](Cardinality(LiveShareVideo) <= 1)
    /\ [](\A tr \in LiveShareVideo : screenStream # Null /\ screenStream.v = tr)
    /\ [][ \A tr \in (deadTracks' \ deadTracks) \cap shareTracks :
             (ScreenTrackEnded /\ screenStream # Null /\ tr.kind = "video"
                 /\ screenStream.v # tr)
             => screenStream' = screenStream ]_vars

\* C36: during the session, whenever isRecording is true the encoder of the ref
\* is not inactive, and a toggleRecording call made while isRecording is true
\* leaves isRecording false. (Violated: an encoder that stops by itself leaves
\* isRecording true, and the guarded stop then never resets it.)
C36_RecordingMeansActive ==
    /\ []((appState = "MEETING" /\ isRecording) =>
            (mediaRecorderRef # 0 /\ recorders[mediaRecorderRef].state # "inactive"))
    /\ [][ (ToggleRecording /\ isRecording) => ~isRecording' ]_vars

\* C37: once the session has ended, no camera or microphone track of the session
\* is live, also when initStream's getUserMedia resolves after the end.
\* (Violated: initStream has no test for the end of the session; the late stream
\* is kept in the ref and never stopped.)
C37_NothingLiveAfterEnd ==
    appState = "ENDED" =>
       (StreamTracks(webcamStream) \cup StreamTracks(activeStreamRef))
          \subseteq deadTracks

\* C38: whenever the session has a camera source, isVideoEnabled equals the
\* enabled flag of its video track and isAudioEnabled that of its audio track.
\* (Violated: a stream acquired by initStream has both tracks enabled whatever
\* the flags the session was given.)
C38_FlagsMatchTracks ==
    (appState = "MEETING" /\ webcamStream # Null) =>
       (trackEnabled.video = isVideoEnabled /\ trackEnabled.audio = isAudioEnabled)

\* C39: during the session, whenever isRecording is false and no start request
\* is pending, no capture acquired for a recording is live, except one whose
\* encoder was stopped and has its stop event still queued. (Violated: when the
\* encoder cannot be constructed or started, the catch leaves the capture
\* running.)
C39_NoCaptureWhenIdle ==
    (appState = "MEETING" /\ ~isRecording /\ recordPrompts = 0) =>
       \A i \in 1..Len(recorders) :
          recorders[i].tracksStopped \/ recorders[i].stopQueued

\* C40: once the Lobby is unmounted, the stream its camera effect acquired is
\* either the session's camera stream (handed over through onJoin) or has all
\* its tracks stopped. (Violated: a join submitted after startCamera stored the
\* stream and before the render of its setStream hands over null and sets
\* isJoiningRef, so the cleanup spares a stream nobody owns.)
C40_LobbyStreamOwned ==
    (appState # "LOBBY" /\ lobby.localStream # Null) =>
       \/ webcamStream = lobby.localStream
       \/ StreamTracks(lobby.localStream) \subseteq deadTracks

====
